---- MODULE Spec2Model ----
(***************************************************************************)
(* Model of the S&P 500 EMA trend scanner: utils.py (ticker listing, fetch, *)
(* EMA trend rule, thread-pool scan, Telegram alert) and the refresh        *)
(* handler of app.py.                                                       *)
(*                                                                          *)
(* Units.  A price is written as an integer counting thousandths of a      *)
(* dollar and stands for the float64 nearest to that decimal, which is what *)
(* the frame holds; volumes are share counts (or NaN), candle timestamps    *)
(* are seconds.  The EMA column is float64 as in pandas: a float is kept as *)
(* m * 2^e with m a 53-bit natural held as a sequence of base-Base digits,  *)
(* least significant first, and every operation rounds to nearest, ties to  *)
(* even.  The clock counts hours.                                           *)
(***************************************************************************)
EXTENDS Integers, Sequences, FiniteSets, TLC

----------------------------------------------------------------------------
(* Arithmetic on naturals of any size (digits, least significant first) *)

DigitBits == 2 * 7
Base == 128 * 128

RECURSIVE Pow2(_)
Pow2(k) == IF k = 0 THEN 1 ELSE 2 * Pow2(k - 1)

RECURSIVE SmallBits(_)
SmallBits(n) == IF n = 0 THEN 0 ELSE 1 + SmallBits(n \div 2)

RECURSIVE BTrim(_)
BTrim(a) ==
    IF a = <<>> THEN <<>>
    ELSE IF a[Len(a)] = 0 THEN BTrim(SubSeq(a, 1, Len(a) - 1))
    ELSE a

RECURSIVE BFromInt(_)
BFromInt(n) ==
    IF n = 0 THEN <<>> ELSE <<n % Base>> \o BFromInt(n \div Base)

RECURSIVE BToInt(_)
BToInt(a) ==
    IF a = <<>> THEN 0 ELSE a[1] + Base * BToInt(Tail(a))

RECURSIVE BMulCarry(_, _, _)
BMulCarry(a, k, carry) ==
    IF a = <<>> THEN BFromInt(carry)
    ELSE LET t == a[1] * k + carry
         IN  <<t % Base>> \o BMulCarry(Tail(a), k, t \div Base)

(* a * k for a natural k below Base *)
BMulSmall(a, k) == BTrim(BMulCarry(a, k, 0))

RECURSIVE BAddCarry(_, _, _)
BAddCarry(a, b, carry) ==
    IF a = <<>> /\ b = <<>> THEN BFromInt(carry)
    ELSE LET x == IF a = <<>> THEN 0 ELSE a[1]
             y == IF b = <<>> THEN 0 ELSE b[1]
             t == x + y + carry
         IN  <<t % Base>> \o
             BAddCarry(IF a = <<>> THEN <<>> ELSE Tail(a),
                       IF b = <<>> THEN <<>> ELSE Tail(b), t \div Base)

BAdd(a, b) == BTrim(BAddCarry(a, b, 0))

RECURSIVE BSubBorrow(_, _, _)
BSubBorrow(a, b, borrow) ==
    IF a = <<>> THEN <<>>
    ELSE LET y == (IF b = <<>> THEN 0 ELSE b[1]) + borrow
             t == a[1] - y
         IN  <<IF t < 0 THEN t + Base ELSE t>> \o
             BSubBorrow(Tail(a), IF b = <<>> THEN <<>> ELSE Tail(b),
                        IF t < 0 THEN 1 ELSE 0)

(* a - b for a >= b *)
BSub(a, b) == BTrim(BSubBorrow(a, b, 0))

RECURSIVE BGreaterFrom(_, _, _)
BGreaterFrom(a, b, i) ==
    IF i = 0 THEN FALSE
    ELSE IF a[i] # b[i] THEN a[i] > b[i]
    ELSE BGreaterFrom(a, b, i - 1)

(* a > b, both trimmed *)
BGreater(a, b) ==
    IF Len(a) # Len(b) THEN Len(a) > Len(b)
    ELSE BGreaterFrom(a, b, Len(a))

(* the sum of a[i] * b[k + 1 - i] over the digits i..Len(a) of a *)
RECURSIVE BColumn(_, _, _, _)
BColumn(a, b, k, i) ==
    IF i > Len(a) \/ i > k THEN 0
    ELSE (IF k + 1 - i <= Len(b) THEN a[i] * b[k + 1 - i] ELSE 0) + BColumn(a, b, k, i + 1)

RECURSIVE BCarry(_, _, _)
BCarry(cols, i, carry) ==
    IF i > Len(cols) THEN BFromInt(carry)
    ELSE <<(cols[i] + carry) % Base>> \o BCarry(cols, i + 1, (cols[i] + carry) \div Base)

(* a * b, for a of at most seven digits: the digit products are summed by   *)
(* column and the carries taken once                                        *)
BMul(a, b) ==
    IF a = <<>> \/ b = <<>> THEN <<>>
    ELSE BTrim(BCarry([k \in 1..(Len(a) + Len(b) - 1) |-> BColumn(a, b, k, 1)], 1, 0))

(* the number of binary digits of a *)
BBits(a) ==
    IF a = <<>> THEN 0 ELSE DigitBits * (Len(a) - 1) + SmallBits(a[Len(a)])

(* a * 2^k *)
BShl(a, k) ==
    IF a = <<>> \/ k = 0 THEN a
    ELSE [i \in 1..(k \div DigitBits) |-> 0] \o BMulSmall(a, Pow2(k % DigitBits))

RECURSIVE BDivFrom(_, _, _, _)
BDivFrom(a, d, i, rem) ==
    IF i = 0 THEN <<>>
    ELSE LET t == rem * Base + a[i]
         IN  Append(BDivFrom(a, d, i - 1, t % d), t \div d)

(* a \div d for a natural d of at most Base *)
BDivSmall(a, d) == BTrim(BDivFrom(a, d, Len(a), 0))

(* a \div 2^k *)
BShr(a, k) ==
    IF k \div DigitBits >= Len(a) THEN <<>>
    ELSE BDivSmall(SubSeq(a, k \div DigitBits + 1, Len(a)), Pow2(k % DigitBits))

(* a is a multiple of 2^k *)
BLowZero(a, k) ==
    /\ \A i \in 1..(k \div DigitBits) : i > Len(a) \/ a[i] = 0
    /\ k \div DigitBits < Len(a) => a[k \div DigitBits + 1] % Pow2(k % DigitBits) = 0

(* a / 2^k rounded to the nearest natural, a tie to the even one: half is   *)
(* added and the digits below 2^k dropped; a tie shows as a sum that is a   *)
(* multiple of 2^k, and then an odd result is one too high                  *)
RoundShift(a, k) ==
    IF k = 0 THEN a
    ELSE LET sum == BAdd(a, BShl(<<1>>, k - 1))
             q   == BShr(sum, k)
         IN  IF BLowZero(sum, k) /\ q # <<>> /\ q[1] % 2 = 1 THEN BSub(q, <<1>>) ELSE q

----------------------------------------------------------------------------
(* float64: positive normal numbers m * 2^e, m of exactly 53 binary digits *)

MantissaBits == 52 + 1
GuardBits == 5 * DigitBits

(* m * 2^e rounded to float64 *)
Normalize(m, e) ==
    LET n == BBits(m)
    IN  IF n <= MantissaBits
        THEN [m |-> BShl(m, MantissaBits - n), e |-> e - (MantissaBits - n)]
        ELSE LET q == RoundShift(m, n - MantissaBits)
             IN  IF BBits(q) > MantissaBits
                 THEN [m |-> BShr(q, 1), e |-> e + (n - MantissaBits) + 1]
                 ELSE [m |-> q, e |-> e + (n - MantissaBits)]

(* the float64 nearest to n / d, for naturals n > 0 and 0 < d <= Base: the  *)
(* quotient is taken to GuardBits binary places and a last digit records    *)
(* whether anything was cut off                                             *)
FromRatio(n, d) ==
    LET scaled == BShl(BFromInt(n), GuardBits)
        q      == BDivSmall(scaled, d)
        exact  == BMulSmall(q, d) = scaled
    IN  Normalize(IF exact THEN BShl(q, 1) ELSE BAdd(BShl(q, 1), <<1>>), 0 - GuardBits - 1)

FMul(x, y) == Normalize(BMul(x.m, y.m), x.e + y.e)

FAdd(x, y) ==
    LET e == IF x.e < y.e THEN x.e ELSE y.e
    IN  Normalize(BAdd(BShl(x.m, x.e - e), BShl(y.m, y.e - e)), e)

(* x - y for x > y *)
FSub(x, y) ==
    LET e == IF x.e < y.e THEN x.e ELSE y.e
    IN  Normalize(BSub(BShl(x.m, x.e - e), BShl(y.m, y.e - e)), e)

(* x > y *)
FGreater(x, y) ==
    IF x.e = y.e THEN BGreater(x.m, y.m)
    ELSE LET e == IF x.e < y.e THEN x.e ELSE y.e
         IN  BGreater(BShl(x.m, x.e - e), BShl(y.m, y.e - e))

(* numpy.rint(x) as a natural, for x below 2^53 *)
Rint(x) == BToInt(IF x.e >= 0 THEN BShl(x.m, x.e) ELSE RoundShift(x.m, 0 - x.e))

FOne == FromRatio(1, 1)

ThousandthsPerDollar == 10 * 100

(* the conversion for the prices up to three dollars, worked out once *)
TableTop == 3 * ThousandthsPerDollar
PriceTable == [m \in 1..TableTop |-> FromRatio(m, ThousandthsPerDollar)]

(* the float64 a frame holds for a price of m thousandths of a dollar *)
Price(m) ==
    IF m >= 1 /\ m <= TableTop THEN PriceTable[m] ELSE FromRatio(m, ThousandthsPerDollar)

----------------------------------------------------------------------------
(* utils.py: calculate_ema, calculate_ema_trend *)

EmaPeriod == 20
ConfirmWindow == 18

(* a least row count one short of the window, in place of line 50's 20 *)
MinRows_below_window == ConfirmWindow - 1

MinRows == 20

(* Optional values: None, or Some(v) *)
None == <<>>
Some(v) == <<v>>
IsNone(o) == o = <<>>
Get(o) == o[1]

(* data.ewm(span=period, adjust=False).mean() over the closes, as the      *)
(* pandas kernel computes it in float64:                                    *)
(*   alpha = 1 / (1 + com), com = (span - 1) / 2; old_wt_factor = 1 - alpha *)
(*   weighted = vals[0]; then for each later value cur, unless it equals    *)
(*   weighted:  weighted = (old_wt * weighted + alpha * cur)                *)
(*                         / (old_wt + alpha),  old_wt = 1 * old_wt_factor  *)
Alpha(period) == FromRatio(2, period + 1)
OldWt(period) == FSub(FOne, Alpha(period))

(* the divisor old_wt + new_wt: it is the float 1.0 for the spans at hand,  *)
(* and the division then leaves the sum as it is                            *)
WtSum(period) == FAdd(OldWt(period), Alpha(period))

RECURSIVE EmaFrom(_, _, _, _)
EmaFrom(closes, alpha, old_wt, acc) ==
    IF Len(acc) = Len(closes) THEN acc
    ELSE LET weighted == acc[Len(acc)]
             cur      == Price(closes[Len(acc) + 1])
         IN  EmaFrom(closes, alpha, old_wt,
                 Append(acc,
                     IF weighted = cur THEN weighted
                     ELSE FAdd(FMul(old_wt, weighted), FMul(alpha, cur))))

(* the weights of the span of line 55, worked out once *)
Weights20 == [alpha |-> Alpha(EmaPeriod), old_wt |-> OldWt(EmaPeriod)]

calculate_ema(closes, period) ==
    IF closes = <<>> THEN <<>>
    ELSE LET w == IF period = EmaPeriod THEN Weights20
                  ELSE [alpha |-> Alpha(period), old_wt |-> OldWt(period)]
         IN  EmaFrom(closes, w.alpha, w.old_wt, <<Price(closes[1])>>)

(* x > e for a price x and an EMA value e *)
Above(x, e) == FGreater(Price(x), e)

(* df.tail(n): the row numbers of the last n rows (all rows when fewer) *)
TailRows(df, n) == { i \in 1..Len(df) : i > Len(df) - n }

Closes(df) == [i \in 1..Len(df) |-> df[i].Close]

(* return False, None, None, None *)
NoVerdict == [passed |-> FALSE, last_price |-> None, last_volume |-> None,
              last_updated |-> None]

(* the trend test without the Low column *)
TrendAbove_no_low(df) ==
    \E ema \in {calculate_ema(Closes(df), EmaPeriod)} :
        LET last_18 == TailRows(df, ConfirmWindow)
        IN  \A i \in last_18 : /\ Above(df[i].Open, ema[i])
                               /\ Above(df[i].High, ema[i])
                               /\ Above(df[i].Close, ema[i])

(* the four all(...) tests over last_18 and their conjunction; ema is the   *)
(* column df['EMA20'] of line 55, worked out once                           *)
TrendAbove(df) ==
    \E ema \in {calculate_ema(Closes(df), EmaPeriod)} :
        LET last_18 == TailRows(df, ConfirmWindow)
            open_above  == \A i \in last_18 : Above(df[i].Open, ema[i])
            high_above  == \A i \in last_18 : Above(df[i].High, ema[i])
            low_above   == \A i \in last_18 : Above(df[i].Low, ema[i])
            close_above == \A i \in last_18 : Above(df[i].Close, ema[i])
        IN  open_above /\ high_above /\ low_above /\ close_above

(* calculate_ema_trend with the volume of the candle before the last *)
calculate_ema_trend_stale_volume(df) ==
    IF IsNone(df) THEN NoVerdict
    ELSE IF Len(Get(df)) < MinRows THEN NoVerdict
    ELSE IF TrendAbove(Get(df))
         THEN LET last == Get(df)[Len(Get(df))]
              IN  [passed |-> TRUE, last_price |-> Some(last.Close),
                   last_volume |-> Some(Get(df)[Len(Get(df)) - 1].Volume),
                   last_updated |-> Some(last.Time)]
         ELSE NoVerdict

(* calculate_ema_trend rejecting only frames shorter than the window *)
calculate_ema_trend_window_guard(df) ==
    IF IsNone(df) THEN NoVerdict
    ELSE IF Len(Get(df)) < ConfirmWindow THEN NoVerdict
    ELSE IF TrendAbove(Get(df))
         THEN LET last == Get(df)[Len(Get(df))]
              IN  [passed |-> TRUE, last_price |-> Some(last.Close),
                   last_volume |-> Some(last.Volume),
                   last_updated |-> Some(last.Time)]
         ELSE NoVerdict

(* lines 50-58: the rows of last_18 when the call gets as far as the trend  *)
(* check, None when line 51 returns before it                               *)
TrendWindow(df) ==
    IF IsNone(df) THEN None
    ELSE IF Len(Get(df)) < MinRows THEN None
    ELSE Some(TailRows(Get(df), ConfirmWindow))

(* df is None or Some(rows), rows a sequence of candles *)
calculate_ema_trend(df) ==
    IF IsNone(df) THEN NoVerdict
    ELSE IF Len(Get(df)) < MinRows THEN NoVerdict
    ELSE IF TrendAbove(Get(df))
         THEN LET last == Get(df)[Len(Get(df))]
              IN  [passed |-> TRUE, last_price |-> Some(last.Close),
                   last_volume |-> Some(last.Volume),
                   last_updated |-> Some(last.Time)]
         ELSE NoVerdict

----------------------------------------------------------------------------
(* Market data: what yf.Ticker(t).history(...) gives for each symbol *)

Candle(o, h, l, c, v, t) ==
    [Open |-> o, High |-> h, Low |-> l, Close |-> c, Volume |-> v, Time |-> t]

(* a volume is a share count or NaN *)
Shares(n) == [nan |-> FALSE, val |-> n]
NaN == [nan |-> TRUE, val |-> 0]

SecondsPerHour == 3600

(* n hourly candles whose closes climb so that the EMA of row i is the      *)
(* whole number p0 + 2*(i-1): close[1] = p0, close[i] = ema[i-1] + 21.      *)
Climbing(n, p0, v0, t0) ==
    [i \in 1..n |->
        LET c == IF i = 1 THEN p0 ELSE p0 + 2 * i + 17
        IN  Candle(c - 3, c + 4, c - 6, c, Shares(v0 + 100 * i),
                   t0 + SecondsPerHour * i)]

(* n hourly candles with every price equal to p: the EMA equals the price *)
Flat(n, p, v0, t0) ==
    [i \in 1..n |-> Candle(p, p, p, p, Shares(v0), t0 + SecondsPerHour * i)]

WithLastVolume(rows, v) ==
    [rows EXCEPT ![Len(rows)] = [@ EXCEPT !.Volume = v]]

Symbols == {"AAA", "BBB", "NANV", "NODATA", "NETERR", "SHORT", "FLAT"}

(* stock.history(start, end, interval='1h'): raises, or returns rows *)
History(ticker) ==
    CASE ticker = "AAA"    -> [raises |-> FALSE, rows |-> Climbing(20, 1000, 5000, 30)]
      [] ticker = "BBB"    -> [raises |-> FALSE, rows |-> Climbing(21, 2128, 700, 0)]
      [] ticker = "NANV"   -> [raises |-> FALSE,
                               rows |-> WithLastVolume(Climbing(20, 1500, 100, 0), NaN)]
      [] ticker = "NODATA" -> [raises |-> FALSE, rows |-> <<>>]
      [] ticker = "NETERR" -> [raises |-> TRUE, rows |-> <<>>]
      [] ticker = "SHORT"  -> [raises |-> FALSE, rows |-> Climbing(5, 900, 10, 0)]
      [] ticker = "FLAT"   -> [raises |-> FALSE, rows |-> Flat(20, 1200, 40, 0)]

----------------------------------------------------------------------------
(* utils.py: get_hourly_data, process_ticker *)

(* get_hourly_data without the df.empty test of line 32 *)
get_hourly_data_no_empty_test(ticker) ==
    LET h == History(ticker)
    IN  IF h.raises THEN None ELSE Some(h.rows)

get_hourly_data(ticker) ==
    LET h == History(ticker)
    IN  IF h.raises THEN None
        ELSE IF h.rows = <<>> THEN None
        ELSE Some(h.rows)

CentsPerDollar == 100

(* round(last_price, 2) of a numpy.float64, in cents: numpy multiplies by   *)
(* 10^2, takes rint (ties to even) and divides by 10^2                      *)
Round2(m) == Rint(FMul(Price(m), FromRatio(CentsPerDollar, 1)))

SecondsPerMinute == 60

(* strftime('%Y-%m-%d %H:%M'): the minute the timestamp falls in *)
FormatMinute(t) == t \div SecondsPerMinute

(* What a call returns: a value, or an exception *)
Returned(v) == [exc |-> FALSE, val |-> v]
Raised == [exc |-> TRUE, val |-> None]

(* lines 86-93: the row made from what calculate_ema_trend returned;       *)
(* int(NaN) raises ValueError and nothing in process_ticker catches it      *)
build_row(ticker, v) ==
    IF ~v.passed THEN Returned(None)
    ELSE IF Get(v.last_volume).nan THEN Raised
    ELSE Returned(Some(
            [Ticker       |-> ticker,
             LastPrice    |-> Round2(Get(v.last_price)),
             Volume       |-> Get(v.last_volume).val,
             LastUpdated  |-> FormatMinute(Get(v.last_updated))]))

(* The outcome of process_ticker(ticker): Returned(None), Returned(Some(row)) *)
(* or Raised                                                                *)
process_ticker(ticker) ==
    LET df == get_hourly_data(ticker)
    IN  IF IsNone(df) THEN Returned(None)
        ELSE build_row(ticker, calculate_ema_trend(df))

(* process_ticker over the symbols of the market: a worker's call for a     *)
(* ticker always ends the same way, as the data behind it is fixed          *)
WorkerOutcome == [t \in Symbols |-> process_ticker(t)]

----------------------------------------------------------------------------
(* State *)

VARIABLES
    listings,        \* what the successive reads of the S&P 500 page will give
    secrets,         \* st.secrets: TELEGRAM_BOT_TOKEN, TELEGRAM_CHAT_IDS
    now,             \* the wall clock, in hours
    last_update,     \* st.session_state.last_update
    cached_results,  \* st.session_state.cached_results
    cache_expiry,    \* st.session_state.cache_expiry
    apc,             \* where the app script is: "idle", "scan", "sleep", "shown"
    force_refresh,   \* the checkbox, as read by the running handler
    current_time,    \* the handler's current_time
    df_results,      \* the handler's df_results: None while unbound
    ui,              \* what the running handler has put on the page, in order
    pc,              \* where analyze_stocks is
    tickers,         \* analyze_stocks: tickers
    fut,             \* the futures, in submission order
    yielded,         \* the futures as_completed has handed out
    results,         \* analyze_stocks: results
    failed,          \* an exception is propagating out of the with block
    pool,            \* the executor: "none", "open", "shut"
    ret,             \* what analyze_stocks gave its caller
    npc,             \* where send_telegram_alert is
    nlog,            \* the chat ids the alert reached / failed to reach
    nested,          \* what each analyze_stocks called by refresh_command gave
    series,          \* the frame handed to calculate_ema_trend on its own
    verdict,         \* what calculate_ema_trend returned for it
    edit,            \* the one cell of the frame changed since, and what was before
    window,          \* the rows of last_18 in that call, None when not reached
    built            \* what lines 86-93 of process_ticker made of the verdict

worldVars == <<listings, secrets, now>>
sessionVars == <<last_update, cached_results, cache_expiry>>
handlerVars == <<apc, force_refresh, current_time, df_results, ui>>
scanVars == <<pc, tickers, fut, yielded, results, failed, pool, ret>>
alertVars == <<npc, nlog, nested>>
evalVars == <<series, verdict, edit, window, built>>
vars == <<worldVars, sessionVars, handlerVars, scanVars, alertVars, evalVars>>

----------------------------------------------------------------------------
(* Bounds *)

MaxTickers == 2
MaxChats == 2

RECURSIVE SeqsUpTo(_, _)
SeqsUpTo(S, n) ==
    IF n = 0 THEN {<<>>}
    ELSE LET shorter == SeqsUpTo(S, n - 1)
         IN  shorter \cup { Append(q, x) : q \in { r \in shorter : Len(r) = n - 1 }, x \in S }

(* A read of the page: it fails, or gives the Symbol column *)
PageDown == [down |-> TRUE, symbols |-> <<>>]
PageUp(syms) == [down |-> FALSE, symbols |-> syms]
Pages == {PageDown} \cup { PageUp(q) : q \in SeqsUpTo(Symbols, MaxTickers) }

Token == "123456:token"
ChatIds == { [i \in 1..n |-> i] : n \in 0..MaxChats }
Secrets ==
    { [token |-> t, chat_ids |-> c] : t \in {None, Some(Token)}, c \in ChatIds }
    \cup { [token |-> Some(""), chat_ids |-> <<1>>] }

----------------------------------------------------------------------------
(* app.py *)

HoursToLive == 1
LastHour == HoursToLive + 1

(* datetime.strftime("%Y-%m-%d %H:%M:%S") of a clock reading *)
FormatSecond(t) == t * SecondsPerHour

(* lines 96-118: the display of a frame *)
Display(df) ==
    IF df = <<>> THEN <<"warning: no stocks found">>
    ELSE <<"success: found", "dataframe", "download">>

(* The app's state after lines 14-20 of the first script run *)
SessionInit ==
    /\ last_update = None
    /\ cached_results = <<>>
    /\ cache_expiry = now

ScanOff ==
    /\ pc = "off"
    /\ tickers = <<>>
    /\ fut = <<>>
    /\ yielded = {}
    /\ results = <<>>
    /\ failed = FALSE
    /\ pool = "none"
    /\ ret = None
    /\ npc = "off"
    /\ nlog = <<>>
    /\ nested = <<>>

(* One read of the page by the scan and one more for a /refresh command     *)
(* that reaches the bot during the alert                                    *)
RefreshTapes ==
    { <<PageUp(<<"AAA">>), q>> :
        q \in {PageDown, PageUp(<<"AAA", "BBB">>), PageUp(<<"NANV">>)} }

Init ==
    /\ listings \in { <<p>> : p \in Pages } \cup RefreshTapes
    /\ secrets \in Secrets
    /\ now = 0
    /\ SessionInit
    /\ apc = "idle"
    /\ force_refresh = FALSE
    /\ current_time = 0
    /\ df_results = None
    /\ ui = <<>>
    /\ ScanOff
    /\ series = None
    /\ verdict = None
    /\ edit = None
    /\ window = None
    /\ built = None

(* Time passes *)
Tick ==
    /\ now < LastHour
    /\ now' = now + 1
    /\ UNCHANGED <<listings, secrets, sessionVars, handlerVars, scanVars, alertVars, evalVars>>

(* lines 59-68 and 96-118: the button is pressed and the cache is valid *)
RefreshCached(force) ==
    /\ apc \in {"idle", "shown"}
    /\ ~force /\ ~IsNone(last_update) /\ now < cache_expiry
    /\ apc' = "shown"
    /\ force_refresh' = force
    /\ current_time' = now
    /\ df_results' = Some(cached_results)
    /\ ui' = <<"success: using cached results">> \o Display(cached_results)
    /\ UNCHANGED <<worldVars, sessionVars, scanVars, alertVars, evalVars>>

(* lines 59-80: the button is pressed, the cache is not valid, and          *)
(* analyze_stocks is called with the configured token and chat ids          *)
RefreshScan(force) ==
    /\ apc \in {"idle", "shown"}
    /\ ~(~force /\ ~IsNone(last_update) /\ now < cache_expiry)
    /\ listings # <<>>
    /\ apc' = "scan"
    /\ force_refresh' = force
    /\ current_time' = now
    /\ df_results' = None
    /\ ui' = <<>>
    /\ pc' = "list"
    /\ tickers' = <<>>
    /\ fut' = <<>>
    /\ yielded' = {}
    /\ results' = <<>>
    /\ failed' = FALSE
    /\ pool' = "none"
    /\ ret' = None
    /\ npc' = "off"
    /\ nlog' = <<>>
    /\ nested' = <<>>
    /\ UNCHANGED <<worldVars, sessionVars, evalVars>>

(* line 80: analyze_stocks returned and df_results is bound; line 83 fills   *)
(* the progress bar and line 84 sleeps half a second, the session state     *)
(* still as it was                                                          *)
ResumeReturned ==
    /\ apc = "scan" /\ pc = "returned"
    /\ df_results' = Some(Get(ret).val)
    /\ apc' = "sleep"
    /\ pc' = "off"
    /\ UNCHANGED <<worldVars, sessionVars, force_refresh, current_time, ui, tickers, fut,
                   yielded, results, failed, pool, ret, alertVars, evalVars>>

(* the expiry counted from the end of the scan *)
UpdateCache_expiry_from_end ==
    /\ apc = "sleep"
    /\ cached_results' = Get(df_results)
    /\ last_update' = Some(FormatSecond(current_time))
    /\ cache_expiry' = now + HoursToLive
    /\ ui' = Display(Get(df_results))
    /\ apc' = "shown"
    /\ UNCHANGED <<worldVars, force_refresh, current_time, df_results, scanVars,
                   alertVars, evalVars>>

(* lines 85-90 and 96-118: after the sleep the session state takes the      *)
(* frame, the time of line 61 and the expiry an hour after it, and the      *)
(* frame is displayed                                                       *)
UpdateCache ==
    /\ apc = "sleep"
    /\ cached_results' = Get(df_results)
    /\ last_update' = Some(FormatSecond(current_time))
    /\ cache_expiry' = current_time + HoursToLive
    /\ ui' = Display(Get(df_results))
    /\ apc' = "shown"
    /\ UNCHANGED <<worldVars, force_refresh, current_time, df_results, scanVars,
                   alertVars, evalVars>>

(* an except branch that drops the cache *)
ResumeRaised_drops_cache ==
    /\ apc = "scan" /\ pc = "raised"
    /\ ui' = <<"error: an error occurred">> \o
             (IF IsNone(df_results) THEN <<"exception: NameError">>
              ELSE Display(Get(df_results)))
    /\ apc' = "shown"
    /\ pc' = "off"
    /\ last_update' = None
    /\ cached_results' = <<>>
    /\ cache_expiry' = current_time
    /\ UNCHANGED <<worldVars, force_refresh, current_time, df_results,
                   tickers, fut, yielded, results, failed, pool, ret, alertVars, evalVars>>

(* lines 92-96: analyze_stocks raised; st.error, then line 96 reads          *)
(* df_results, a name this run never bound: NameError, which nothing        *)
(* catches and Streamlit shows as an exception                              *)
ResumeRaised ==
    /\ apc = "scan" /\ pc = "raised"
    /\ ui' = <<"error: an error occurred">> \o
             (IF IsNone(df_results) THEN <<"exception: NameError">>
              ELSE Display(Get(df_results)))
    /\ apc' = "shown"
    /\ pc' = "off"
    /\ UNCHANGED <<worldVars, sessionVars, force_refresh, current_time, df_results,
                   tickers, fut, yielded, results, failed, pool, ret, alertVars, evalVars>>

----------------------------------------------------------------------------
(* utils.py: analyze_stocks and its worker pool *)

MaxWorkers == 10

Future(st, out) == [st |-> st, out |-> out]
Futures == 1..Len(fut)
Running == { i \in Futures : fut[i].st = "running" }
AllSubmitted == \A i \in Futures : fut[i].st # "new"
AllDone == \A i \in Futures : fut[i].st = "done"

(* analyze_stocks taking a failed listing for an empty one *)
ListTickers_swallow ==
    /\ pc = "list"
    /\ listings' = Tail(listings)
    /\ pc' = "pool"
    /\ tickers' = Head(listings).symbols
    /\ results' = <<>>
    /\ pool' = "open"
    /\ fut' = [i \in 1..Len(Head(listings).symbols) |-> Future("new", Returned(None))]
    /\ UNCHANGED <<secrets, now, sessionVars, handlerVars, yielded, failed, ret,
                   alertVars, evalVars>>

(* lines 149-155: get_sp500_tickers() reads the page; when that raises, the *)
(* except of line 173 raises "Analysis failed"; otherwise the pool opens    *)
ListTickers ==
    /\ pc = "list"
    /\ listings' = Tail(listings)
    /\ IF Head(listings).down
       THEN /\ pc' = "raised"
            /\ ret' = Some(Raised)
            /\ UNCHANGED <<tickers, fut, results, pool>>
       ELSE /\ pc' = "pool"
            /\ tickers' = Head(listings).symbols
            /\ results' = <<>>
            /\ pool' = "open"
            /\ fut' = [i \in 1..Len(Head(listings).symbols) |-> Future("new", Returned(None))]
            /\ ret' = ret
    /\ UNCHANGED <<secrets, now, sessionVars, handlerVars, yielded, failed, alertVars, evalVars>>

(* line 157: executor.submit(process_ticker, ticker), ticker by ticker *)
Submit(i) ==
    /\ pc = "pool" /\ ~failed
    /\ fut[i].st = "new"
    /\ \A j \in 1..(i - 1) : fut[j].st # "new"
    /\ fut' = [fut EXCEPT ![i].st = "pending"]
    /\ UNCHANGED <<worldVars, sessionVars, handlerVars, pc, tickers, yielded, results,
                   failed, pool, ret, alertVars, evalVars>>

(* a pool that starts a thread for every work item *)
Start_thread_per_item(i) ==
    /\ pool = "open"
    /\ fut[i].st = "pending"
    /\ \A j \in 1..(i - 1) : fut[j].st \notin {"pending"}
    /\ fut' = [fut EXCEPT ![i].st = "running"]
    /\ UNCHANGED <<worldVars, sessionVars, handlerVars, pc, tickers, yielded, results,
                   failed, pool, ret, alertVars, evalVars>>

(* a worker thread takes the oldest queued work item; the pool has at most  *)
(* max_workers threads                                                      *)
Start(i) ==
    /\ pool = "open"
    /\ fut[i].st = "pending"
    /\ \A j \in 1..(i - 1) : fut[j].st \notin {"pending"}
    /\ Cardinality(Running) < MaxWorkers
    /\ fut' = [fut EXCEPT ![i].st = "running"]
    /\ UNCHANGED <<worldVars, sessionVars, handlerVars, pc, tickers, yielded, results,
                   failed, pool, ret, alertVars, evalVars>>

(* a worker that appends its row to results itself *)
Finish_appends(i) ==
    /\ pool = "open"
    /\ fut[i].st = "running"
    /\ fut' = [fut EXCEPT ![i] = Future("done", WorkerOutcome[tickers[i]])]
    /\ results' = IF IsNone(WorkerOutcome[tickers[i]].val) THEN results
                  ELSE Append(results, Get(WorkerOutcome[tickers[i]].val))
    /\ UNCHANGED <<worldVars, sessionVars, handlerVars, pc, tickers, yielded,
                   failed, pool, ret, alertVars, evalVars>>

(* the worker's call of process_ticker ends and the future holds its outcome *)
Finish(i) ==
    /\ pool = "open"
    /\ fut[i].st = "running"
    /\ fut' = [fut EXCEPT ![i] = Future("done", WorkerOutcome[tickers[i]])]
    /\ UNCHANGED <<worldVars, sessionVars, handlerVars, pc, tickers, yielded, results,
                   failed, pool, ret, alertVars, evalVars>>

(* lines 160-163: as_completed hands out a finished future; future.result() *)
(* re-raises what the worker raised, else a row is appended                 *)
(* results = [result] in place of results.append(result) *)
Collect_overwrite(i) ==
    /\ pc = "pool" /\ ~failed /\ AllSubmitted
    /\ fut[i].st = "done"
    /\ i \notin yielded
    /\ yielded' = yielded \cup {i}
    /\ IF fut[i].out.exc
       THEN failed' = TRUE /\ results' = results
       ELSE /\ failed' = failed
            /\ results' = IF IsNone(fut[i].out.val) THEN results
                          ELSE <<Get(fut[i].out.val)>>
    /\ UNCHANGED <<worldVars, sessionVars, handlerVars, pc, tickers, fut, pool, ret,
                   alertVars, evalVars>>

Collect(i) ==
    /\ pc = "pool" /\ ~failed /\ AllSubmitted
    /\ fut[i].st = "done"
    /\ i \notin yielded
    /\ yielded' = yielded \cup {i}
    /\ IF fut[i].out.exc
       THEN failed' = TRUE /\ results' = results
       ELSE /\ failed' = failed
            /\ results' = IF IsNone(fut[i].out.val) THEN results
                          ELSE Append(results, Get(fut[i].out.val))
    /\ UNCHANGED <<worldVars, sessionVars, handlerVars, pc, tickers, fut, pool, ret,
                   alertVars, evalVars>>

(* the with block left after the first finished future, without the join *)
PoolExit_first_completed ==
    /\ pc = "pool"
    /\ failed \/ (AllSubmitted /\ (yielded # {} \/ Futures = {}))
    /\ pool' = "shut"
    /\ IF failed THEN pc' = "raised" /\ ret' = Some(Raised)
       ELSE pc' = "build" /\ ret' = ret
    /\ UNCHANGED <<worldVars, sessionVars, handlerVars, tickers, fut, yielded, results,
                   failed, alertVars, evalVars>>

(* the with block left by shutdown(wait=False): no join *)
PoolExit_no_join ==
    /\ pc = "pool"
    /\ failed \/ (AllSubmitted /\ yielded = Futures)
    /\ pool' = "shut"
    /\ IF failed THEN pc' = "raised" /\ ret' = Some(Raised)
       ELSE pc' = "build" /\ ret' = ret
    /\ UNCHANGED <<worldVars, sessionVars, handlerVars, tickers, fut, yielded, results,
                   failed, alertVars, evalVars>>

(* the end of the with block: shutdown(wait=True) returns once every work   *)
(* item has run; a propagating exception then reaches line 173              *)
PoolExit ==
    /\ pc = "pool"
    /\ failed \/ (AllSubmitted /\ yielded = Futures)
    /\ AllDone
    /\ pool' = "shut"
    /\ IF failed THEN pc' = "raised" /\ ret' = Some(Raised)
       ELSE pc' = "build" /\ ret' = ret
    /\ UNCHANGED <<worldVars, sessionVars, handlerVars, tickers, fut, yielded, results,
                   failed, alertVars, evalVars>>

(* the truth value of a secret that is None or a string: None and the      *)
(* empty string are false                                                   *)
Truthy(o) == ~IsNone(o) /\ Get(o) # ""

(* the alert condition without the token test *)
Aggregate_no_token_test ==
    /\ pc = "build"
    /\ IF secrets.chat_ids # <<>> /\ results # <<>>
       THEN pc' = "alert" /\ npc' = "setup" /\ ret' = ret
       ELSE pc' = "returned" /\ npc' = npc /\ ret' = Some(Returned(results))
    /\ UNCHANGED <<worldVars, sessionVars, handlerVars, tickers, fut, yielded, results,
                   failed, pool, nlog, nested, evalVars>>

(* lines 166-172: the frame is built; the alert is sent when a token and    *)
(* chat ids are configured and the frame is not empty                       *)
Aggregate ==
    /\ pc = "build"
    /\ IF Truthy(secrets.token) /\ secrets.chat_ids # <<>> /\ results # <<>>
       THEN pc' = "alert" /\ npc' = "setup" /\ ret' = ret
       ELSE pc' = "returned" /\ npc' = npc /\ ret' = Some(Returned(results))
    /\ UNCHANGED <<worldVars, sessionVars, handlerVars, tickers, fut, yielded, results,
                   failed, pool, nlog, nested, evalVars>>

(* line 172, after send_telegram_alert has returned *)
ReturnAfterAlert ==
    /\ pc = "alert" /\ npc = "done"
    /\ pc' = "returned"
    /\ ret' = Some(Returned(results))
    /\ UNCHANGED <<worldVars, sessionVars, handlerVars, tickers, fut, yielded, results,
                   failed, pool, alertVars, evalVars>>

----------------------------------------------------------------------------
(* utils.py: send_telegram_alert *)

NetOutcomes == {"ok", "error", "stall"}

(* the awaits of lines 120-122, in order: application.initialize(),         *)
(* application.start(), application.updater.start_polling()                 *)
SetupStages == {"setup", "start", "poll"}

AfterStage(stage) ==
    CASE stage = "setup" -> "start"
      [] stage = "start" -> "poll"
      [] stage = "poll" -> "send"

(* lines 117-122: the bot application is built, refresh_command is          *)
(* registered, and the application is initialized, started and set          *)
(* polling, one await at a time; an exception at any of them goes to the    *)
(* except of line 140, and an await that never returns holds the call       *)
AlertSetup(outcome) ==
    /\ npc \in SetupStages
    /\ npc' = CASE outcome = "ok" -> AfterStage(npc)
                [] outcome = "error" -> "done"
                [] outcome = "stall" -> "stalled"
    /\ UNCHANGED <<worldVars, sessionVars, handlerVars, scanVars, nlog, nested, evalVars>>

(* lines 131-137: the message goes to the next chat id; a failure is caught *)
(* per chat id                                                              *)
AlertSend(outcome) ==
    /\ npc = "send"
    /\ IF outcome = "stall"
       THEN npc' = "stalled" /\ nlog' = nlog
       ELSE /\ nlog' = Append(nlog, [chat |-> secrets.chat_ids[Len(nlog) + 1],
                                     sent |-> outcome = "ok"])
            /\ npc' = IF Len(nlog) + 1 = Len(secrets.chat_ids) THEN "done" ELSE "send"
    /\ UNCHANGED <<worldVars, sessionVars, handlerVars, scanVars, nested, evalVars>>

(* the rows in the outcomes of the workers, in list order *)
RECURSIVE RowsOf(_, _)
RowsOf(syms, outcome) ==
    IF syms = <<>> THEN <<>>
    ELSE (IF IsNone(outcome[Head(syms)].val) THEN <<>>
          ELSE <<Get(outcome[Head(syms)].val)>>) \o RowsOf(Tail(syms), outcome)

(* the orders n futures can complete in *)
Orders(n) == Permutations(1..n)

(* lines 145-174 run to their end in one piece: the call raises when the    *)
(* listing fails or a worker raised, and otherwise returns the rows in the  *)
(* order the futures completed in                                           *)
analyze_stocks(page, outcome) ==
    IF page.down \/ \E i \in 1..Len(page.symbols) : outcome[page.symbols[i]].exc
    THEN {Raised}
    ELSE { Returned([i \in 1..Len(RowsOf(page.symbols, outcome)) |->
                        RowsOf(page.symbols, outcome)[p[i]]]) :
             p \in Orders(Len(RowsOf(page.symbols, outcome))) }

(* analyze_stocks as refresh_command calls it, for every page it may read *)
NestedOutcomes == [page \in Pages |-> analyze_stocks(page, WorkerOutcome)]

(* lines 104-114: a /refresh command is handled while send_message waits    *)
(* at an await, the updater polling.  refresh_command calls                 *)
(* analyze_stocks(bot_token, chat_ids) from inside the running event loop,  *)
(* which it holds until the call ends: the page is read again, a pool of    *)
(* its own runs the tickers, and the call raises when the listing fails or  *)
(* a worker raised.  With rows to report it calls send_telegram_alert,      *)
(* whose asyncio.run refuses to start under a running loop; the except of   *)
(* line 140 takes that, and the rows are returned in the order the futures  *)
(* completed in.  The frame of the call that is sending the alert is not    *)
(* touched.                                                                 *)
RefreshCommand ==
    /\ pc = "alert" /\ npc = "send"
    /\ listings # <<>>
    /\ listings' = Tail(listings)
    /\ \E outcome \in NestedOutcomes[Head(listings)] : nested' = Append(nested, outcome)
    /\ UNCHANGED <<secrets, now, sessionVars, handlerVars, scanVars, npc, nlog, evalVars>>

----------------------------------------------------------------------------

Next ==
    \/ Tick
    \/ \E force \in BOOLEAN : RefreshCached(force)
    \/ \E force \in BOOLEAN : RefreshScan(force)
    \/ ResumeReturned
    \/ UpdateCache
    \/ ResumeRaised
    \/ ListTickers
    \/ \E i \in Futures : Submit(i)
    \/ \E i \in Futures : Start(i)
    \/ \E i \in Futures : Finish(i)
    \/ \E i \in Futures : Collect(i)
    \/ PoolExit
    \/ Aggregate
    \/ ReturnAfterAlert
    \/ \E o \in NetOutcomes : AlertSetup(o)
    \/ \E o \in NetOutcomes : AlertSend(o)
    \/ RefreshCommand

Spec == Init /\ [][Next]_vars

----------------------------------------------------------------------------
(* The scan without the clock and with no alert configured *)

NoSecrets == [token |-> None, chat_ids |-> <<>>]

ScanNext ==
    \/ \E force \in BOOLEAN : RefreshCached(force)
    \/ \E force \in BOOLEAN : RefreshScan(force)
    \/ ResumeReturned
    \/ UpdateCache
    \/ ResumeRaised
    \/ ListTickers
    \/ \E i \in Futures : Submit(i)
    \/ \E i \in Futures : Start(i)
    \/ \E i \in Futures : Finish(i)
    \/ \E i \in Futures : Collect(i)
    \/ PoolExit
    \/ Aggregate

(* A listing with more tickers than the pool has workers *)
ExtraTickers == 1

LongList ==
    [i \in 1..(MaxWorkers + ExtraTickers) |->
        IF i = MaxWorkers + ExtraTickers THEN "AAA"
        ELSE IF i % 2 = 0 THEN "NETERR" ELSE "NODATA"]

(* one call of analyze_stocks, from the button to its return *)
PoolNext ==
    \/ RefreshScan(FALSE)
    \/ ListTickers
    \/ \E i \in Futures : Submit(i)
    \/ \E i \in Futures : Start(i)
    \/ \E i \in Futures : Finish(i)
    \/ \E i \in Futures : Collect(i)
    \/ PoolExit
    \/ Aggregate

PoolInit ==
    /\ listings = <<PageUp(LongList)>>
    /\ secrets = NoSecrets
    /\ now = 0
    /\ SessionInit
    /\ apc = "idle"
    /\ force_refresh = FALSE
    /\ current_time = 0
    /\ df_results = None
    /\ ui = <<>>
    /\ ScanOff
    /\ series = None
    /\ verdict = None
    /\ edit = None
    /\ window = None
    /\ built = None

PoolSpec == PoolInit /\ [][PoolNext]_vars

(* Two calls of analyze_stocks that read the same listing and the same      *)
(* histories                                                                *)
TwiceInit ==
    /\ listings \in { <<p, p>> : p \in Pages }
    /\ secrets = NoSecrets
    /\ now = 0
    /\ SessionInit
    /\ apc = "idle"
    /\ force_refresh = FALSE
    /\ current_time = 0
    /\ df_results = None
    /\ ui = <<>>
    /\ ScanOff
    /\ series = None
    /\ verdict = None
    /\ edit = None
    /\ window = None
    /\ built = None

TwiceSpec == TwiceInit /\ [][ScanNext]_vars

(* The app over two successive listings while the clock runs *)
AppPages ==
    { PageDown, PageUp(<<>>), PageUp(<<"AAA">>), PageUp(<<"NODATA">>), PageUp(<<"NANV">>) }

AppInit ==
    /\ listings \in { <<p, q>> : p, q \in AppPages }
    /\ secrets = NoSecrets
    /\ now = 0
    /\ SessionInit
    /\ apc = "idle"
    /\ force_refresh = FALSE
    /\ current_time = 0
    /\ df_results = None
    /\ ui = <<>>
    /\ ScanOff
    /\ series = None
    /\ verdict = None
    /\ edit = None
    /\ window = None
    /\ built = None

AppNext == Tick \/ ScanNext

AppSpec == AppInit /\ [][AppNext]_vars

----------------------------------------------------------------------------
(* calculate_ema_trend on its own, over a family of frames *)

MaxRows == 22

Fields == {"Open", "High", "Low", "Close"}

(* the offsets below a candle's close that a changed cell may take: in a    *)
(* climbing frame the EMA of a row lies 19 below its close                  *)
Offsets == 18..22

Frames ==
    {None}
    \cup { Some(Climbing(n, 1000, 5000, 0)) : n \in 0..MaxRows }
    \cup { Some(Flat(n, 1200, 40, 0)) : n \in {MinRows - 1, MinRows} }
    \cup { Some(WithLastVolume(Climbing(MinRows, 1500, 100, 0), NaN)) }

EvalInit ==
    /\ listings = <<>>
    /\ secrets = NoSecrets
    /\ now = 0
    /\ SessionInit
    /\ apc = "eval"
    /\ force_refresh = FALSE
    /\ current_time = 0
    /\ df_results = None
    /\ ui = <<>>
    /\ ScanOff
    /\ series \in Frames
    /\ verdict = None
    /\ edit = None
    /\ window = None
    /\ built = None

(* calculate_ema_trend(df) is called on the frame *)
Evaluate ==
    /\ apc = "eval"
    /\ IsNone(verdict)
    /\ verdict' = Some(calculate_ema_trend(series))
    /\ window' = TrendWindow(series)
    /\ UNCHANGED <<worldVars, sessionVars, handlerVars, scanVars, alertVars, series, edit,
                   built>>

(* lines 86-93 of process_ticker(ticker), once calculate_ema_trend returned *)
BuildRow(ticker) ==
    /\ apc = "eval"
    /\ ~IsNone(series) /\ ~IsNone(verdict) /\ IsNone(built)
    /\ built' = Some(build_row(ticker, Get(verdict)))
    /\ UNCHANGED <<worldVars, sessionVars, handlerVars, scanVars, alertVars, series,
                   verdict, edit, window>>

(* one cell of an evaluated frame is given another value *)
Edit(row, field, value) ==
    /\ apc = "eval"
    /\ ~IsNone(verdict) /\ IsNone(edit) /\ ~IsNone(series) /\ IsNone(built)
    /\ row \in 1..Len(Get(series))
    /\ series' = Some([Get(series) EXCEPT ![row][field] = value])
    /\ verdict' = None
    /\ edit' = Some([row |-> row, field |-> field, value |-> value,
                     old |-> Get(series)[row][field],
                     passed |-> Get(verdict).passed])
    /\ window' = None
    /\ built' = None
    /\ UNCHANGED <<worldVars, sessionVars, handlerVars, scanVars, alertVars>>

EvalNext ==
    \/ Evaluate
    \/ \E t \in {"AAA", "BBB"} : BuildRow(t)
    \/ \E row \in 1..MaxRows, field \in Fields, d \in Offsets :
          /\ ~IsNone(series)
          /\ row \in 1..Len(Get(series))
          /\ Edit(row, field, Get(series)[row].Close - d)

EvalSpec == EvalInit /\ [][EvalNext]_vars

----------------------------------------------------------------------------
(* Properties *)

Distinct(q) == \A i, j \in 1..Len(q) : i # j => q[i] # q[j]
RowTickers(rows) == [i \in 1..Len(rows) |-> rows[i].Ticker]
Range(q) == { q[i] : i \in 1..Len(q) }

(* the symbols whose history is available and passes the trend rule *)
PassingSymbols ==
    { t \in Symbols : /\ ~History(t).raises
                      /\ History(t).rows # <<>>
                      /\ calculate_ema_trend(Some(History(t).rows)).passed }

(* the symbols whose fetch is Unavailable: the call raises or gives no rows *)
UnavailableSymbols == { t \in Symbols : History(t).raises \/ History(t).rows = <<>> }

(* analyze_stocks has ended, having obtained its ticker list *)
ScanEnded == pc \in {"returned", "raised"} /\ pool # "none"

(* C1: for a list of N distinct tickers of which K have an available series *)
(* that passes the trend rule, analyze_stocks returns exactly K rows, one   *)
(* per passing ticker and none twice, whatever the order the workers        *)
(* finished in.                                                             *)
C1_ExactlyKRows ==
    (ScanEnded /\ Distinct(tickers)) =>
        /\ ~Get(ret).exc
        /\ Len(Get(ret).val) = Cardinality(Range(tickers) \cap PassingSymbols)
        /\ Range(RowTickers(Get(ret).val)) = Range(tickers) \cap PassingSymbols
        /\ Distinct(RowTickers(Get(ret).val))

(* C2: a failure inside one ticker's pipeline, an unexpected error while    *)
(* building its row included, is swallowed per ticker: analyze_stocks does  *)
(* not raise because of it and returns the rows of every ticker whose       *)
(* pipeline produced one.                                                   *)
C2_PerTickerFailureSwallowed ==
    ScanEnded =>
        /\ ~Get(ret).exc
        /\ \A i \in 1..Len(tickers) :
              ~IsNone(WorkerOutcome[tickers[i]].val) =>
                  Get(WorkerOutcome[tickers[i]].val) \in Range(Get(ret).val)

(* C3: whenever analyze_stocks builds or returns a result, every submitted  *)
(* ticker's pipeline has run to completion: none is unsubmitted, pending or *)
(* running.                                                                 *)
C3_ResultOnlyAfterAllPipelines ==
    (pc \in {"build", "alert", "returned"} \/ (~IsNone(ret) /\ ~Get(ret).exc)) =>
        /\ Len(fut) = Len(tickers)
        /\ \A i \in 1..Len(tickers) : fut[i].st = "done"

C3_Witness ==
    /\ pc = "returned"
    /\ Len(tickers) >= 2
    /\ Len(Get(ret).val) >= 1
    /\ Len(Get(ret).val) < Len(tickers)

(* C4: the result of analyze_stocks holds no two rows with the same Ticker, *)
(* also when the ticker list names a passing symbol more than once.         *)
C4_NoDuplicateTickerRows ==
    (pc = "returned") => Distinct(RowTickers(Get(ret).val))

Errors(page) == { i \in 1..Len(page) :
                    page[i] \in {"error: an error occurred", "exception: NameError"} }

(* C5: a failed scan makes the app report exactly one error and nothing of  *)
(* the result display; a scan that succeeds with no passing ticker makes    *)
(* it report the empty result and no error.                                 *)
C5_FailedScanReportsOneError ==
    (apc = "shown") =>
        /\ IsNone(df_results) => ui = <<"error: an error occurred">>
        /\ df_results = Some(<<>>) =>
              (Errors(ui) = {} /\ "warning: no stocks found" \in Range(ui))

(* C6: whatever send_telegram_alert does (succeeds, fails in the bot setup, *)
(* fails for a chat id, or does not come back), analyze_stocks returns the  *)
(* result it computed, unchanged, and raises nothing.                       *)
C6_AlertNeverFailsOrBlocksScan ==
    /\ (npc = "stalled") => (pc = "returned")
    /\ (npc # "off" /\ pc \in {"returned", "raised"}) => ret = Some(Returned(results))

(* C7: when the ticker universe cannot be listed, analyze_stocks raises to  *)
(* its caller and the scan does not proceed: no pool is created, no         *)
(* pipeline is started and no alert is sent.                                *)
C7_ListingFailurePropagates ==
    /\ [][ (pc = "list" /\ pc' # "list" /\ Head(listings).down) =>
              (/\ pc' = "raised"
               /\ ret' = Some(Raised)
               /\ pool' = "none"
               /\ fut' = <<>>
               /\ npc' = "off"
               /\ nlog' = <<>>) ]_vars
    /\ [][ (pc = "raised" /\ pool = "none") =>
              (pool' = "none" /\ fut' = <<>> /\ npc' = "off" /\ nlog' = <<>>) ]_vars

C7_Witness == pc = "raised" /\ pool = "none" /\ apc = "scan" /\ listings = <<>>

(* C8: when the ticker universe listing is empty or fails, analyze_stocks   *)
(* has nothing to scan: it ends without raising, with an empty result.      *)
C8_EmptyOrFailedListingIsNothingToScan ==
    (pc \in {"returned", "raised"} /\ tickers = <<>>) => ret = Some(Returned(<<>>))

(* C9: when every ticker's fetch is Unavailable (no rows, or the call       *)
(* raises), get_hourly_data gives None for each, and analyze_stocks returns *)
(* an empty result, raises nothing and sends no alert.                      *)
C9_AllUnavailableGivesEmptyResult ==
    (pc \in {"returned", "raised"} /\ pool # "none"
        /\ Range(tickers) \subseteq UnavailableSymbols) =>
        /\ \A t \in Range(tickers) : IsNone(get_hourly_data(t))
        /\ ret = Some(Returned(<<>>))
        /\ npc = "off"

C9_Witness ==
    /\ pc = "returned"
    /\ Len(tickers) >= 2
    /\ Range(tickers) \subseteq UnavailableSymbols
    /\ \E t \in Range(tickers) : History(t).raises
    /\ \E t \in Range(tickers) : ~History(t).raises
    /\ ~IsNone(secrets.token) /\ secrets.chat_ids # <<>>

(* calculate_ema_trend has returned for the frame at hand *)
Evaluated == apc = "eval" /\ ~IsNone(verdict) /\ ~IsNone(series)

(* price x is strictly greater than the EMA value e *)
StrictlyAbove(x, e) == FGreater(Price(x), e)

(* every one of the last 18 rows has Open, High, Low and Close above the    *)
(* row's EMA20                                                              *)
AllAboveInLast18(rows, ema) ==
    \A i \in (Len(rows) - 17)..Len(rows) : \A f \in Fields :
        StrictlyAbove(rows[i][f], ema[i])

(* the frame as it was before the one cell was changed *)
BeforeEdit == [Get(series) EXCEPT ![Get(edit).row][Get(edit).field] = Get(edit).old]

(* one field of one of the last 18 points of a passing series was changed *)
EditInWindow ==
    /\ ~IsNone(edit)
    /\ Get(edit).passed
    /\ Get(edit).row > Len(Get(series)) - 18

(* C10, as stated: for a series of at least 20 points calculate_ema_trend   *)
(* passes iff in each of the last 18 points Open, High, Low and Close are   *)
(* all strictly greater than the point's EMA20; in particular a passing     *)
(* series in which one field of one of those points is changed to a value   *)
(* equal to or below the EMA20 that point had fails.                        *)
C10_PassesIffAllFourAboveEma ==
    (Evaluated /\ IsNone(built) /\ Len(Get(series)) >= 20) =>
        /\ \E ema \in {calculate_ema(Closes(Get(series)), EmaPeriod)} :
              Get(verdict).passed <=> AllAboveInLast18(Get(series), ema)
        /\ EditInWindow =>
              \E before \in {calculate_ema(Closes(BeforeEdit), EmaPeriod)} :
                  ~StrictlyAbove(Get(edit).value, before[Get(edit).row])
                      => ~Get(verdict).passed

(* C10, corrected: for a series of at least 20 points calculate_ema_trend   *)
(* passes iff in each of the last 18 points Open, High, Low and Close are   *)
(* all strictly greater than the point's EMA20, the EMA20 being the column  *)
(* of the series evaluated.  A passing series in which one field of one of  *)
(* those points is changed fails when the new value is equal to or below    *)
(* the point's EMA20 in the changed series.  For Open, High and Low that is *)
(* the EMA20 the point had, as the column is left as it was; for Close it   *)
(* is not, as the point's EMA20 moves with its Close: a changed Close fails *)
(* the series when it is equal to or below the EMA20 of the point before.   *)
C10_FlipAgainstEmaOfChangedSeries ==
    (Evaluated /\ IsNone(built) /\ Len(Get(series)) >= 20) =>
        \E ema \in {calculate_ema(Closes(Get(series)), EmaPeriod)} :
            /\ Get(verdict).passed <=> AllAboveInLast18(Get(series), ema)
            /\ (EditInWindow /\ ~StrictlyAbove(Get(edit).value, ema[Get(edit).row]))
                  => ~Get(verdict).passed
            /\ EditInWindow =>
                  \E before \in {calculate_ema(Closes(BeforeEdit), EmaPeriod)} :
                      IF Get(edit).field = "Close"
                      THEN /\ before[Get(edit).row - 1] = ema[Get(edit).row - 1]
                           /\ ~StrictlyAbove(Get(edit).value, before[Get(edit).row - 1])
                                 => ~Get(verdict).passed
                      ELSE /\ before = ema
                           /\ ~StrictlyAbove(Get(edit).value, before[Get(edit).row])
                                 => ~Get(verdict).passed

(* a passing frame whose Close in one of the last 18 rows was set to a      *)
(* value at or below the EMA20 of the row before, yet above that EMA20 less *)
(* a hundredth, and which then failed                                       *)
C10_Witness ==
    /\ Evaluated
    /\ Len(Get(series)) >= 20
    /\ EditInWindow
    /\ Get(edit).field = "Close"
    /\ ~Get(verdict).passed
    /\ \E before \in {calculate_ema(Closes(BeforeEdit), EmaPeriod)} :
          /\ ~StrictlyAbove(Get(edit).value, before[Get(edit).row - 1])
          /\ StrictlyAbove(Get(edit).value + 10, before[Get(edit).row - 1])

(* C11: for an input that is None or a series of fewer than 20 points,      *)
(* calculate_ema_trend returns passed = false with no snapshot, whatever    *)
(* the prices are, and does not raise.                                      *)
C11_ShortOrMissingSeriesFails ==
    (apc = "eval" /\ ~IsNone(verdict) /\ (IsNone(series) \/ Len(Get(series)) < 20)) =>
        /\ ~Get(verdict).passed
        /\ IsNone(Get(verdict).last_price)
        /\ IsNone(Get(verdict).last_volume)
        /\ IsNone(Get(verdict).last_updated)

(* a frame of 19 rows whose last 18 rows are all above the EMA20, rejected  *)
C11_Witness ==
    /\ Evaluated
    /\ Len(Get(series)) = 19
    /\ ~Get(verdict).passed
    /\ \E ema \in {calculate_ema(Closes(Get(series)), EmaPeriod)} :
          \A i \in 2..19 : \A f \in Fields : StrictlyAbove(Get(series)[i][f], ema[i])

(* C12: in every verdict of calculate_ema_trend the snapshot (last price,   *)
(* last volume, last timestamp) is present iff passed is true, and its      *)
(* three fields are those of the final point of the series; the row that    *)
(* process_ticker builds for a passing ticker carries that ticker's name    *)
(* and the final point's price (to the cent), volume and minute.            *)
C12_SnapshotFromFinalPoint ==
    (apc = "eval" /\ ~IsNone(verdict)) =>
        LET v == Get(verdict)
        IN  /\ v.passed <=> ~IsNone(v.last_price)
            /\ v.passed <=> ~IsNone(v.last_volume)
            /\ v.passed <=> ~IsNone(v.last_updated)
            /\ v.passed =>
                  LET final == Get(series)[Len(Get(series))]
                  IN  /\ Get(v.last_price) = final.Close
                      /\ Get(v.last_volume) = final.Volume
                      /\ Get(v.last_updated) = final.Time
                      /\ (~IsNone(built) /\ ~final.Volume.nan) =>
                            /\ ~Get(built).exc
                            /\ ~IsNone(Get(built).val)
                            /\ Get(Get(built).val).Ticker \in {"AAA", "BBB"}
                            /\ Get(Get(built).val).Volume = final.Volume.val
                            /\ Get(Get(built).val).LastPrice * 10 - final.Close \in -5..5
                            /\ Get(Get(built).val).LastUpdated * 60 <= final.Time
                            /\ final.Time < Get(Get(built).val).LastUpdated * 60 + 60

(* a passing frame of 21 rows whose row was built *)
C12_Witness ==
    /\ Evaluated
    /\ Get(verdict).passed
    /\ Len(Get(series)) = 21
    /\ ~IsNone(built)
    /\ ~Get(built).exc
    /\ ~IsNone(Get(built).val)
    /\ Get(Get(built).val).Ticker = "BBB"

(* C20: whenever calculate_ema_trend reaches the trend check, the window it *)
(* evaluates holds exactly 18 points; a window of fewer points does not     *)
(* occur, as a series of fewer than 20 points is rejected before the        *)
(* window is taken.                                                         *)
C20_WindowIsAlways18 ==
    (apc = "eval" /\ ~IsNone(verdict)) =>
        /\ ~IsNone(window) =>
              /\ Cardinality(Get(window)) = 18
              /\ Len(Get(series)) >= 20
              /\ Get(window) = (Len(Get(series)) - 17)..Len(Get(series))
        /\ IsNone(window) => (IsNone(series) \/ Len(Get(series)) < 20)

(* the shortest frame that reaches the trend check *)
C20_Witness ==
    /\ Evaluated
    /\ Len(Get(series)) = 20
    /\ window = Some(3..20)

(* With C12, in the scan: every row a worker handed back for the ticker at  *)
(* position i names that ticker and holds the final candle of that          *)
(* ticker's own history, whatever ran beside it.                            *)
RowsCarryOwnTickerValues ==
    \A i \in Futures :
        (fut[i].st = "done" /\ ~fut[i].out.exc /\ ~IsNone(fut[i].out.val)) =>
            LET r == Get(fut[i].out.val)
                h == History(tickers[i]).rows
            IN  /\ r.Ticker = tickers[i]
                /\ r.Volume = h[Len(h)].Volume.val
                /\ r.LastPrice * 10 - h[Len(h)].Close \in -5..5
                /\ r.LastUpdated * 60 <= h[Len(h)].Time
                /\ h[Len(h)].Time < r.LastUpdated * 60 + 60

(* C13: at every moment of a scan at most 10 ticker pipelines are          *)
(* executing, however many tickers were submitted.                          *)
C13_AtMostTenRunning == Cardinality(Running) <= 10

(* ten pipelines executing while an eleventh ticker waits in the queue *)
C13_Witness ==
    /\ Cardinality(Running) = 10
    /\ \E i \in Futures : fut[i].st = "pending"

(* C14: whenever analyze_stocks has returned or raised, its pool is torn    *)
(* down and every worker joined: no pipeline it submitted is pending or     *)
(* running, also when one pipeline's error cut the collection short.        *)
C14_PoolJoinedBeforeReturn ==
    (pc \in {"returned", "raised"}) =>
        /\ pool # "open"
        /\ \A i \in Futures : fut[i].st = "done"

(* the scan raised after collecting only part of the finished futures *)
C14_Witness ==
    /\ pc = "raised"
    /\ pool = "shut"
    /\ failed
    /\ Len(tickers) >= 2
    /\ yielded # Futures

(* C15: results is appended to only by the orchestrating thread, one        *)
(* returned output of a worker at a time; a worker's own steps leave it     *)
(* alone.                                                                   *)
C15_OnlyOrchestratorAppends ==
    /\ [][ (results' # results) =>
              \/ results' = <<>>
              \/ \E i \in Futures :
                    /\ pc = "pool"
                    /\ i \notin yielded
                    /\ yielded' = yielded \cup {i}
                    /\ fut[i].st = "done"
                    /\ fut' = fut
                    /\ results' = Append(results, Get(fut[i].out.val)) ]_vars
    /\ [](Len(results) <= Cardinality(yielded))

C15_Witness ==
    /\ pc = "pool"
    /\ Len(results) = 2
    /\ results[1].Ticker # results[2].Ticker

(* C17: with no bot token, or with no chat ids, analyze_stocks never calls  *)
(* send_telegram_alert: the alert is never entered and nothing is sent.     *)
C17_NoAlertWithoutDestination ==
    (secrets.token \in {None, Some("")} \/ secrets.chat_ids = <<>>) =>
        /\ npc = "off"
        /\ pc # "alert"
        /\ nlog = <<>>

(* a scan that returned rows although only half of the destination is set *)
C17_Witness ==
    /\ (secrets.token \in {None, Some("")}) # (secrets.chat_ids = <<>>)
    /\ pc = "returned"
    /\ ~IsNone(ret)
    /\ Get(ret) # Raised
    /\ Get(ret).val # <<>>

(* how often each row occurs in a result *)
RowBag(rows) == [r \in Range(rows) |-> Cardinality({ i \in 1..Len(rows) : rows[i] = r })]

(* C16: two calls of analyze_stocks over the same ticker list and the same  *)
(* histories end alike and, when they return, return the same rows, order   *)
(* aside, whatever the interleaving of the workers.  The first call's       *)
(* result is what the app cached.                                           *)
C16_SecondCallSameRows ==
    /\ (listings = <<>> /\ pc = "returned") =>
          /\ ~IsNone(last_update)
          /\ RowBag(Get(ret).val) = RowBag(cached_results)
    /\ (listings = <<>> /\ pc = "raised") => IsNone(last_update)

(* the second call returned the two rows of the first in the other order *)
C16_Witness ==
    /\ listings = <<>>
    /\ pc = "returned"
    /\ Len(cached_results) = 2
    /\ Get(ret).val # cached_results
    /\ Get(ret).val[1] = cached_results[2]

(* the test of lines 62-64 at a press of the button with the checkbox as    *)
(* this press has it                                                        *)
CacheValidAtPress == ~force_refresh' /\ ~IsNone(last_update) /\ now < cache_expiry

PressServed == apc \in {"idle", "shown"} /\ apc' = "shown" /\ now' = now
PressScanned == apc \in {"idle", "shown"} /\ apc' = "scan"
ScanSucceeded == apc = "sleep" /\ apc' = "shown"
ScanFailed == apc = "scan" /\ pc = "raised" /\ apc' = "shown"

(* C18: a press of the button serves the cached result, and runs no scan,   *)
(* exactly when force refresh is off, a scan has succeeded before and the   *)
(* clock is strictly before the expiry; otherwise it starts a scan.  The    *)
(* expiry is the start time of the last successful scan plus one hour, and  *)
(* last_update is set by a successful scan only.                            *)
C18_CacheServedIffValid ==
    /\ [][ PressServed =>
              /\ CacheValidAtPress
              /\ df_results' = Some(cached_results)
              /\ UNCHANGED <<scanVars, sessionVars>> ]_vars
    /\ [][ PressScanned => ~CacheValidAtPress /\ pc' = "list" /\ current_time' = now ]_vars
    /\ [][ (apc \in {"scan", "sleep"} /\ apc' # "scan") =>
              current_time' = current_time ]_vars
    /\ [][ (apc = "scan" /\ apc' = "sleep") =>
              (pc = "returned" /\ df_results' = Some(Get(ret).val)) ]_vars
    /\ [][ ScanSucceeded =>
              /\ ~IsNone(last_update')
              /\ cached_results' = Get(ret).val
              /\ cache_expiry' = current_time + HoursToLive ]_vars
    /\ [][ (sessionVars' # sessionVars) => ScanSucceeded ]_vars

(* with force refresh off and a successful scan behind it, a press at the   *)
(* very hour of the expiry started a new scan                               *)
C18_Witness ==
    /\ apc = "scan"
    /\ ~force_refresh
    /\ ~IsNone(last_update)
    /\ current_time = cache_expiry
    /\ Get(last_update) = FormatSecond(cache_expiry - HoursToLive)
    /\ listings = <<>>

(* C19: a refresh whose scan fails leaves cached_results, last_update and   *)
(* cache_expiry as they were, so the next press without force refresh and   *)
(* before the old expiry serves the result cached before.                   *)
C19_FailedScanKeepsCache ==
    /\ [][ ScanFailed => sessionVars' = sessionVars ]_vars
    /\ [][ (apc = "scan") => sessionVars' = sessionVars ]_vars
    /\ []( (apc = "shown" /\ pc = "off" /\ ret = Some(Raised)
            /\ ~IsNone(last_update) /\ now < cache_expiry)
           => ENABLED RefreshCached(FALSE) )

(* the rows cached by the first scan are served after the second one failed *)
C19_Witness ==
    /\ listings = <<>>
    /\ ret = Some(Raised)
    /\ apc = "shown"
    /\ ui # <<>>
    /\ ui[1] = "success: using cached results"
    /\ cached_results # <<>>
    /\ df_results = Some(cached_results)

====
